---- MODULE Spec2Model ----
(***************************************************************************)
(* The slim-based cell-type hierarchy builder, get_cell_tree of            *)
(* src/api/options_api.py, as a state machine.  One build runs through the *)
(* phases of the function body in program order; a phase is one action.    *)
(* Two calls in flight at once, as two requests make them, each have the   *)
(* locals of their own frame in `calls`.                                   *)
(*                                                                         *)
(* Strings are sequences of code points, so that str.casefold, str.lower,  *)
(* str.strip, string comparison and string concatenation are computed and  *)
(* not assumed.  A dict is a sequence of <<key, value>> pairs in insertion *)
(* order, which is the order Python iterates it in.  A set is a TLA+ set;  *)
(* the order Python iterates a set in is not determined by its contents,   *)
(* so every sorted(<set>, key=...) is a choice among the results the       *)
(* stable sort gives over all enumerations of the set.                     *)
(***************************************************************************)
EXTENDS Integers, Sequences, FiniteSets, TLC

VARIABLES pc, bios, enc_terms, slim_members, slims, sizes, parents, nodes,
          roots, tree, run, first_tree, calls

vars == <<pc, bios, enc_terms, slim_members, slims, sizes, parents, nodes,
          roots, tree, run, first_tree, calls>>

(***************************************************************************)
(* Bounds of the model.                                                    *)
(***************************************************************************)
\* Largest number of records in a catalog.
MaxRecords == 3

\* Largest number of records in a catalog of loader records.
MaxLoaderRecords == 2

\* Largest number of records in a catalog that is built twice.
MaxTwiceRecords == 2

\* Largest number of records in the catalog of each of two calls in flight.
MaxPairRecords == 2

\* Largest number of records in a catalog that is built in two orders.
MaxPermRecords == 2

(***************************************************************************)
(* Python values.                                                          *)
(***************************************************************************)
\* None: a value that is no string (code points are never negative).
None == <<-1>>

\* The empty string.
EmptyStr == <<>>

\* bool(v) of a str or None.
Truthy(v) == v # None /\ v # EmptyStr

\* str.casefold on ASCII: 'A'..'Z' (65..90) map to 'a'..'z'.
CaseFold(s) == [i \in 1..Len(s) |-> IF s[i] \in 65..90 THEN s[i] + 32 ELSE s[i]]

\* str.lower on ASCII.
Lower(s) == [i \in 1..Len(s) |-> IF s[i] \in 65..90 THEN s[i] + 32 ELSE s[i]]

\* ASCII whitespace: tab, newline, vertical tab, form feed, return, space.
IsSpace(c) == c \in {9, 10, 11, 12, 13, 32}

\* str.strip(): drop leading and trailing whitespace.
Strip(s) ==
    LET keep == {i \in 1..Len(s) : ~IsSpace(s[i])}
    IN  IF keep = {} THEN EmptyStr
        ELSE LET lo == CHOOSE i \in keep : \A j \in keep : i <= j
                 hi == CHOOSE i \in keep : \A j \in keep : j <= i
             IN  SubSeq(s, lo, hi)

\* s < t on str: lexicographic by code point.
StrLess(s, t) ==
    \E k \in 0..Len(s) :
        /\ k <= Len(t)
        /\ \A i \in 1..k : s[i] = t[i]
        /\ IF k = Len(s) THEN k < Len(t)
           ELSE k < Len(t) /\ s[k + 1] < t[k + 1]

\* Sort keys are pairs <<int, str>>, compared as Python compares tuples.
KeyLess(k1, k2) == k1[1] < k2[1] \/ (k1[1] = k2[1] /\ StrLess(k1[2], k2[2]))

\* One step of the stable sort: x goes behind every element whose key is not
\* greater than its own.
SortInsert(sorted, x, key) ==
    LET p == Cardinality({i \in 1..Len(sorted) : ~KeyLess(key[x], key[sorted[i]])})
    IN  SubSeq(sorted, 1, p) \o <<x>> \o SubSeq(sorted, p + 1, Len(sorted))

\* sorted(seq, key=...) of a list: stable, equal keys keep their input order.
RECURSIVE StableSort(_, _)
StableSort(seq, key) ==
    IF seq = <<>> THEN <<>>
    ELSE SortInsert(StableSort(SubSeq(seq, 1, Len(seq) - 1), key), seq[Len(seq)], key)

\* The orders in which a set can be iterated.
RECURSIVE Enumerations(_)
Enumerations(S) ==
    IF S = {} THEN {<<>>}
    ELSE UNION {{<<x>> \o e : e \in Enumerations(S \ {x})} : x \in S}

\* The results sorted(S, key=...) can give for a set S.
SortedSet(S, key) == {StableSort(e, key) : e \in Enumerations(S)}

\* One result per key: the functions f on K with f[k] in C[k].
ChooseEach(K, C) == {f \in [K -> UNION {C[k] : k \in K}] : \A k \in K : f[k] \in C[k]}

\* FoldKey without the case folding: key=str.
RawKey(S) == [x \in S |-> <<0, x>>]

\* key=str.casefold
FoldKey(S) == [x \in S |-> <<0, CaseFold(x)>>]

\* The elements of a list.
Range(seq) == {seq[i] : i \in 1..Len(seq)}

(***************************************************************************)
(* dict: a sequence of <<key, value>> pairs in insertion order.            *)
(***************************************************************************)
EmptyDict == <<>>

Keys(d) == [i \in 1..Len(d) |-> d[i][1]]

KeySet(d) == {d[i][1] : i \in 1..Len(d)}

Has(d, k) == k \in KeySet(d)

Get(d, k) == d[CHOOSE i \in 1..Len(d) : d[i][1] = k][2]

\* d[k] = v: a new key is appended, an old key keeps its place.
Put(d, k, v) ==
    IF Has(d, k) THEN [i \in 1..Len(d) |-> IF d[i][1] = k THEN <<k, v>> ELSE d[i]]
    ELSE Append(d, <<k, v>>)

\* b.get(k) or default, of a record given as a function of its present keys.
GetOr(b, k, default) ==
    IF k \in DOMAIN b /\ b[k] # <<>> THEN b[k] ELSE default

(***************************************************************************)
(* Catalogs: what _fetch_biosample_types can return.  A record is a        *)
(* function of the keys it has; a key it lacks is read with .get.          *)
(***************************************************************************)
\* Classifications "cell", " Cell " and "tissue".
ClassCell == <<99, 101, 108, 108>>

ClassCellPadded == <<32, 67, 101, 108, 108, 32>>

ClassTissue == <<116, 105, 115, 115, 117, 101>>

\* Slim labels "a", "B", "b" in the order a record lists them: "B" and "b"
\* differ by case only, "B" precedes "a" by code point and follows it after
\* case folding.
LabelOrder == << <<97>>, <<66>>, <<98>> >>

\* The cell_slims lists of the tree records: the sublists of LabelOrder.
SlimLists ==
    {SelectSeq(LabelOrder, LAMBDA l : l \in S) : S \in SUBSET Range(LabelOrder)}

\* Term names "a", "B", "c": their order by code point (B, a, c) is not
\* their case-folded order (a, B, c).
TreeNames == {<<97>>, <<66>>, <<99>>}

\* Records that differ in their slims: every one is a named cell.
TreeRecords ==
    [term_name : TreeNames, classification : {ClassCell}, cell_slims : SlimLists]

\* Records whose names "a", "A" differ by case only, under the empty slim
\* label and the labels "b", "B".
EdgeRecords ==
    [term_name : {<<97>>, <<65>>}, classification : {ClassCell},
     cell_slims : {<< <<>> >>, << <<98>> >>, << <<98>>, <<66>> >>,
                   << <<>>, <<98>>, <<66>> >>}]

\* Records that differ in what the loader looks at: the name present, empty
\* or missing, the classification allowed after trimming and lower-casing,
\* disallowed or missing, the slims ["ROOT"], ["b", "ROOT"] or missing.
LoaderNames == {<<97>>, <<66>>, EmptyStr}

LoaderClasses == {ClassCellPadded, ClassTissue}

LoaderSlims == {<< <<82, 79, 79, 84>> >>, << <<98>>, <<82, 79, 79, 84>> >>}

LoaderRecords ==
    [term_name : LoaderNames, classification : LoaderClasses, cell_slims : LoaderSlims]
        \cup [term_name : LoaderNames, cell_slims : LoaderSlims]
        \cup [classification : LoaderClasses, cell_slims : LoaderSlims]
        \cup [term_name : {<<97>>}, classification : LoaderClasses]

CatalogsOf(R, n) == UNION {[1..k -> R] : k \in 0..n}

Catalogs ==
    CatalogsOf(TreeRecords, MaxRecords) \cup CatalogsOf(EdgeRecords, MaxRecords)
        \cup CatalogsOf(LoaderRecords, MaxLoaderRecords)

(***************************************************************************)
(* The build.                                                              *)
(***************************************************************************)
\* The locals of get_cell_tree before its first statement after the fetch.
Fresh ==
    /\ pc = "load"
    /\ enc_terms = <<>>
    /\ slim_members = EmptyDict
    /\ slims = <<>>
    /\ sizes = <<>>
    /\ parents = EmptyDict
    /\ nodes = EmptyDict
    /\ roots = <<>>
    /\ tree = <<>>
    /\ run = 1
    /\ first_tree = <<>>

\* bios = _fetch_biosample_types(): any catalog.  No other call is in flight.
Init == bios \in Catalogs /\ Fresh /\ calls = <<>>

\* The same, for the catalogs whose names or labels differ by case only.
InitTwice ==
    bios \in CatalogsOf(EdgeRecords, MaxTwiceRecords) /\ Fresh /\ calls = <<>>

allowed_classes ==
    { <<112, 114, 105, 109, 97, 114, 121, 32, 99, 101, 108, 108>>,
      <<105, 110, 32, 118, 105, 116, 114, 111, 32, 100, 105, 102, 102, 101, 114,
        101, 110, 116, 105, 97, 116, 101, 100, 32, 99, 101, 108, 108, 115>>,
      <<99, 101, 108, 108, 32, 108, 105, 110, 101>>,
      <<99, 101, 108, 108>> }

\* Classification without the strip().
ClassificationUntrimmed(b) == Lower(GetOr(b, "classification", EmptyStr))

\* classification = (b.get("classification") or "").strip().lower()
Classification(b) == Lower(Strip(GetOr(b, "classification", EmptyStr)))

\* Skipped with `if name is None` in place of `if not name`.
SkippedIfNone(b) ==
    \/ Classification(b) # EmptyStr /\ Classification(b) \notin allowed_classes
    \/ "term_name" \notin DOMAIN b

\* The two `continue` tests of the loader loop.
Skipped(b) ==
    \/ Classification(b) # EmptyStr /\ Classification(b) \notin allowed_classes
    \/ GetOr(b, "term_name", EmptyStr) = EmptyStr

\* The term appended for a record that is not skipped.
Term(b) ==
    [term_name |-> b["term_name"], cell_slims |-> GetOr(b, "cell_slims", <<>>)]

\* for b in bios: ... enc_terms.append(...)
RECURSIVE LoadTerms(_)
LoadTerms(bs) ==
    IF bs = <<>> THEN <<>>
    ELSE IF Skipped(Head(bs)) THEN LoadTerms(Tail(bs))
         ELSE <<Term(Head(bs))>> \o LoadTerms(Tail(bs))

LoadCatalog ==
    /\ pc = "load"
    /\ enc_terms' = LoadTerms(bios)
    /\ pc' = "buckets"
    /\ UNCHANGED <<bios, slim_members, slims, sizes, parents, nodes, roots,
                   tree, run, first_tree, calls>>

\* AddMember that starts the bucket anew at each name.
AddMemberAnew(d, slim, name) == Put(d, slim, {name})

\* slim_members.setdefault(slim, set()).add(name)
AddMember(d, slim, name) ==
    IF Has(d, slim) THEN Put(d, slim, Get(d, slim) \cup {name})
    ELSE Put(d, slim, {name})

\* for slim in t["cell_slims"]: ...
RECURSIVE AddTermSlims(_, _, _)
AddTermSlims(d, name, sl) ==
    IF sl = <<>> THEN d
    ELSE AddTermSlims(AddMember(d, Head(sl), name), name, Tail(sl))

\* for t in enc_terms: ...
RECURSIVE AddTerms(_, _)
AddTerms(d, ts) ==
    IF ts = <<>> THEN d
    ELSE AddTerms(AddTermSlims(d, Head(ts).term_name, Head(ts).cell_slims), Tail(ts))

\* {k: v for k, v in slim_members.items() if v}
PruneEmpty(d) == SelectSeq(d, LAMBDA e : e[2] # {})

BuildBuckets ==
    /\ pc = "buckets"
    /\ slim_members' = PruneEmpty(AddTerms(EmptyDict, enc_terms))
    /\ pc' = "parents"
    /\ UNCHANGED <<bios, enc_terms, slims, sizes, parents, nodes, roots, tree,
                   run, first_tree, calls>>

\* slim_members[a] < slim_members[b] on sets: strict subset.
StrictSubset(A, B) == A \subseteq B /\ A # B

\* Candidates with > in place of <.
CandidatesReversed(d, a) ==
    SelectSeq(Keys(d), LAMBDA b : a # b /\ StrictSubset(Get(d, b), Get(d, a)))

\* Candidates with <= in place of <.
CandidatesNonStrict(d, a) ==
    SelectSeq(Keys(d), LAMBDA b : a # b /\ Get(d, a) \subseteq Get(d, b))

\* cand = [b for b in slims if a != b and slim_members[a] < slim_members[b]]
Candidates(d, a) ==
    SelectSeq(Keys(d), LAMBDA b : a # b /\ StrictSubset(Get(d, a), Get(d, b)))

\* minimal = set(cand), less every x that is a strict superset of another y.
Minimal(d, a) ==
    LET cand == Range(Candidates(d, a))
    IN  {x \in cand : ~\E y \in cand : x # y /\ StrictSubset(Get(d, y), Get(d, x))}

\* ParentKey without the label: (sizes[s], "").
ParentKeyBySize(d, S) == [s \in S |-> <<Cardinality(Get(d, s)), EmptyStr>>]

\* ParentKey without the case folding: (sizes[s], s).
ParentKeyRaw(d, S) == [s \in S |-> <<Cardinality(Get(d, s)), s>>]

\* key=lambda s: (sizes[s], s.casefold())
ParentKey(d, S) == [s \in S |-> <<Cardinality(Get(d, s)), CaseFold(s)>>]

\* The values parents[a] can get: sorted(minimal, key=...)[0], or None.
ParentChoices(d, a) ==
    IF Candidates(d, a) = <<>> \/ Minimal(d, a) = {} THEN {None}
    ELSE {srt[1] : srt \in SortedSet(Minimal(d, a), ParentKey(d, Minimal(d, a)))}

\* slims, sizes, parents = {s: None ...}, then the loop over slims.
ComputeParents ==
    /\ pc = "parents"
    /\ slims' = Keys(slim_members)
    /\ sizes' = [s \in KeySet(slim_members) |-> Cardinality(Get(slim_members, s))]
    /\ LET choices == [a \in KeySet(slim_members) |-> ParentChoices(slim_members, a)]
       IN  \E pr \in ChooseEach(KeySet(slim_members), choices) :
              parents' = [i \in 1..Len(slim_members) |->
                            <<slim_members[i][1], pr[slim_members[i][1]]>>]
    /\ pc' = "nodes"
    /\ UNCHANGED <<bios, enc_terms, slim_members, nodes, roots, tree, run,
                   first_tree, calls>>

\* "SLIM::"
IdPrefix == <<83, 76, 73, 77, 58, 58>>

\* f"SLIM::{s}"
NodeId(s) == IdPrefix \o s

\* for s in slims: ensure_node(s); members is sorted(slim_members[s], ...).
BuildNodes ==
    /\ pc = "nodes"
    /\ IF \E s \in Range(slims) : ~Has(slim_members, s)
       THEN pc' = "raised" /\ UNCHANGED nodes
       ELSE /\ LET choices == [s \in Range(slims) |->
                                  SortedSet(Get(slim_members, s),
                                            FoldKey(Get(slim_members, s)))]
                IN  \E mem \in ChooseEach(Range(slims), choices) :
                       nodes' = [i \in 1..Len(slims) |->
                                   <<slims[i],
                                     [id |-> NodeId(slims[i]),
                                      label |-> slims[i],
                                      children |-> <<>>,
                                      members |-> mem[slims[i]]]>>]
            /\ pc' = "children"
    /\ UNCHANGED <<bios, enc_terms, slim_members, slims, sizes, parents, roots,
                   tree, run, first_tree, calls>>

\* if parent and child != parent
IsLinked(child, parent) == Truthy(parent) /\ child # parent

\* AppendChild that appends the id of the child in place of its label.
AppendChildId(ns, parent, child) ==
    Put(ns, parent, [Get(ns, parent) EXCEPT !.children = Append(@, NodeId(child))])

\* nodes[parent]["children"].append(child)
AppendChild(ns, parent, child) ==
    Put(ns, parent, [Get(ns, parent) EXCEPT !.children = Append(@, child)])

\* for child, parent in parents.items(): ...
RECURSIVE LinkAll(_, _)
LinkAll(ns, ps) ==
    IF ps = <<>> THEN ns
    ELSE IF IsLinked(Head(ps)[1], Head(ps)[2])
         THEN LinkAll(AppendChild(ns, Head(ps)[2], Head(ps)[1]), Tail(ps))
         ELSE LinkAll(ns, Tail(ps))

LinkChildren ==
    /\ pc = "children"
    /\ IF \E e \in Range(parents) : IsLinked(e[1], e[2]) /\ ~Has(nodes, e[2])
       THEN pc' = "raised" /\ UNCHANGED nodes
       ELSE nodes' = LinkAll(nodes, parents) /\ pc' = "roots"
    /\ UNCHANGED <<bios, enc_terms, slim_members, slims, sizes, parents, roots,
                   tree, run, first_tree, calls>>

\* all_children = {c for s in slims for c in nodes[s]["children"]}
AllChildren(ns, sl) == UNION {Range(Get(ns, s).children) : s \in Range(sl)}

\* parents.get(s)
ParentOf(ps, s) == IF Has(ps, s) THEN Get(ps, s) ELSE None

\* NaturalRoots without the test of parents.get(s).
NaturalRootsUnlinked(ns, ps, sl) ==
    SelectSeq(sl, LAMBDA s : s \notin AllChildren(ns, sl))

\* [s for s in slims if parents.get(s) is None and s not in all_children]
NaturalRoots(ns, ps, sl) ==
    SelectSeq(sl, LAMBDA s : ParentOf(ps, s) = None /\ s \notin AllChildren(ns, sl))

\* key=lambda s: (-sizes[s], s.casefold())
FallbackKey(sz, S) == [s \in S |-> <<0 - sz[s], CaseFold(s)>>]

\* if not roots and slims: roots = [sorted(slims, key=...)[0]]
Roots(ns, ps, sl, sz) ==
    IF NaturalRoots(ns, ps, sl) = <<>> /\ sl # <<>>
    THEN <<StableSort(sl, FallbackKey(sz, Range(sl)))[1]>>
    ELSE NaturalRoots(ns, ps, sl)

ComputeRoots ==
    /\ pc = "roots"
    /\ IF \E s \in Range(slims) : ~Has(nodes, s)
       THEN pc' = "raised" /\ UNCHANGED roots
       ELSE roots' = Roots(nodes, parents, slims, sizes) /\ pc' = "aggregate"
    /\ UNCHANGED <<bios, enc_terms, slim_members, slims, sizes, parents, nodes,
                   tree, run, first_tree, calls>>

\* agg(s) does not return: a node is missing, or the recursion through
\* children never ends (depth beyond the number of nodes means a cycle).
RECURSIVE AggFails(_, _, _)
AggFails(ns, s, fuel) ==
    \/ fuel = 0
    \/ ~Has(ns, s)
    \/ \E c \in Range(Get(ns, s).children) : AggFails(ns, c, fuel - 1)

\* AggSeed with seen = set().
AggSeedEmpty(nd) == {}

\* What agg(s) starts from: seen = set(nodes[s]["members"]).
AggSeed(nd) == Range(nd.members)

\* seen after the loop over children: seen.update(agg(c)).
RECURSIVE AggSet(_, _)
AggSet(ns, s) ==
    AggSeed(Get(ns, s)) \cup UNION {AggSet(ns, c) : c \in Range(Get(ns, s).children)}

\* for s in slims: nodes[s]["aggregate_members"] = agg(s), where the cache
\* makes agg(s) one list per slim: sorted(seen, key=str.casefold).
Aggregate ==
    /\ pc = "aggregate"
    /\ IF \E s \in Range(slims) : AggFails(nodes, s, Len(nodes))
       THEN pc' = "raised" /\ UNCHANGED nodes
       ELSE /\ LET seen == [s \in Range(slims) |-> AggSet(nodes, s)]
                    choices == [s \in Range(slims) |-> SortedSet(seen[s], FoldKey(seen[s]))]
                IN  \E ag \in ChooseEach(Range(slims), choices) :
                       nodes' = [i \in 1..Len(nodes) |->
                                   IF nodes[i][1] \in Range(slims)
                                   THEN <<nodes[i][1],
                                          nodes[i][2] @@ ("aggregate_members" :> ag[nodes[i][1]])>>
                                   ELSE nodes[i]]
            /\ pc' = "serialize"
    /\ UNCHANGED <<bios, enc_terms, slim_members, slims, sizes, parents, roots,
                   tree, run, first_tree, calls>>

\* pack(s): the node and, recursively, its children sorted by casefold.
RECURSIVE Pack(_, _)
Pack(ns, s) ==
    LET nd == Get(ns, s)
        order == StableSort(nd.children, FoldKey(Range(nd.children)))
    IN  [id |-> nd.id,
         label |-> nd.label,
         members |-> nd.members,
         aggregate_members |-> nd.aggregate_members,
         children |-> [i \in 1..Len(order) |-> Pack(ns, order[i])]]

\* "SLIM::ROOT"
RootId == <<83, 76, 73, 77, 58, 58, 82, 79, 79, 84>>

\* "Cell types"
RootLabel == <<67, 101, 108, 108, 32, 116, 121, 112, 101, 115>>

\* AllAggregate as the names of all loaded terms.
AllAggregateOfTerms(ns, sl) == {t.term_name : t \in Range(enc_terms)}

\* AllAggregate over the slims without children only.
AllAggregateLeaves(ns, sl) ==
    UNION {Range(Get(ns, s).aggregate_members) :
             s \in {x \in Range(sl) : Get(ns, x).children = <<>>}}

\* {m for s in slims for m in nodes[s]["aggregate_members"]}
AllAggregate(ns, sl) == UNION {Range(Get(ns, s).aggregate_members) : s \in Range(sl)}

\* tree = {...}; return {"ok": True, "tree": tree}
Serialize ==
    /\ pc = "serialize"
    /\ LET order == StableSort(roots, FoldKey(Range(roots)))
           members == AllAggregate(nodes, slims)
       IN  \E all \in SortedSet(members, FoldKey(members)) :
              tree' = [id |-> RootId,
                       label |-> RootLabel,
                       children |-> [i \in 1..Len(order) |-> Pack(nodes, order[i])],
                       members |-> <<>>,
                       aggregate_members |-> all]
    /\ pc' = "done"
    /\ UNCHANGED <<bios, enc_terms, slim_members, slims, sizes, parents, nodes,
                   roots, run, first_tree, calls>>

\* The next request builds the tree again; the archive returns the same
\* catalog, every local of the first call is gone.
CallAgain ==
    /\ pc = "done"
    /\ run = 1
    /\ first_tree' = tree
    /\ run' = 2
    /\ pc' = "load"
    /\ enc_terms' = <<>>
    /\ slim_members' = EmptyDict
    /\ slims' = <<>>
    /\ sizes' = <<>>
    /\ parents' = EmptyDict
    /\ nodes' = EmptyDict
    /\ roots' = <<>>
    /\ tree' = <<>>
    /\ UNCHANGED <<bios, calls>>

Next ==
    \/ LoadCatalog
    \/ BuildBuckets
    \/ ComputeParents
    \/ BuildNodes
    \/ LinkChildren
    \/ ComputeRoots
    \/ Aggregate
    \/ Serialize

Spec == Init /\ [][Next]_vars

\* Two builds in a row on the same catalog.
NextTwice == Next \/ CallAgain

SpecTwice == InitTwice /\ [][NextTwice]_vars

(***************************************************************************)
(* Two builds in a row on one catalog that the archive returns in two      *)
(* orders.                                                                 *)
(***************************************************************************)
\* Slim labels "a", "B", "c", none equal to another after case folding, in
\* the order a record of the first catalog lists them.
PermLabels == << <<97>>, <<66>>, <<99>> >>

\* Records of names "a", "B" under the sublists of PermLabels, and under
\* ["B", "b"], two labels equal after case folding.
PermRecords ==
    [term_name : {<<97>>, <<66>>}, classification : {ClassCell},
     cell_slims : {SelectSeq(PermLabels, LAMBDA l : l \in S) :
                     S \in SUBSET Range(PermLabels)} \cup {<< <<66>>, <<98>> >>}]

\* bios = _fetch_biosample_types() of the first build.
InitPermuted ==
    /\ bios \in CatalogsOf(PermRecords, MaxPermRecords)
    /\ Fresh
    /\ calls = <<>>

\* The orders of a list.
Orders(seq) ==
    {[i \in 1..Len(seq) |-> seq[f[i]]] :
       f \in {g \in [1..Len(seq) -> 1..Len(seq)] :
                \A i, j \in 1..Len(seq) : i # j => g[i] # g[j]}}

\* A record with its slims in the order sl.
WithSlims(b, sl) == [k \in DOMAIN b |-> IF k = "cell_slims" THEN sl ELSE b[k]]

\* The catalogs that hold the records of cat in any order, each with its
\* slims in any order.
Permuted(cat) ==
    UNION {{[i \in 1..Len(o) |-> WithSlims(o[i], sl[i])] :
              sl \in ChooseEach(1..Len(o),
                                [i \in 1..Len(o) |->
                                   IF "cell_slims" \in DOMAIN o[i]
                                   THEN Orders(o[i]["cell_slims"]) ELSE {<<>>}])} :
           o \in Orders(cat)}

\* The next request builds the tree again from the same records in
\* another order; every local of the first call is gone.
CallPermuted ==
    /\ pc = "done"
    /\ run = 1
    /\ bios' \in Permuted(bios)
    /\ first_tree' = tree
    /\ run' = 2
    /\ pc' = "load"
    /\ enc_terms' = <<>>
    /\ slim_members' = EmptyDict
    /\ slims' = <<>>
    /\ sizes' = <<>>
    /\ parents' = EmptyDict
    /\ nodes' = EmptyDict
    /\ roots' = <<>>
    /\ tree' = <<>>
    /\ UNCHANGED calls

NextPermuted == Next \/ CallPermuted

SpecPermuted == InitPermuted /\ [][NextPermuted]_vars

(***************************************************************************)
(* Two calls in flight.  Every name get_cell_tree assigns is a local of    *)
(* the call, agg and its cache included; a call steps through the same     *)
(* phases on the locals of its own frame.                                  *)
(***************************************************************************)
\* Records of the catalogs of two calls: names "a", "B" under the slims
\* ["b"] and ["b", "B"], so that both catalogs can hold the same label with
\* different members.
PairRecords ==
    [term_name : {<<97>>, <<66>>}, classification : {ClassCell},
     cell_slims : {<< <<98>> >>, << <<98>>, <<66>> >>}]

\* The frame of a call when it has fetched its catalog.
NewCall(cat) ==
    [pc |-> "load", bios |-> cat, enc_terms |-> <<>>, slim_members |-> EmptyDict,
     slims |-> <<>>, sizes |-> <<>>, parents |-> EmptyDict, nodes |-> EmptyDict,
     roots |-> <<>>, cache |-> EmptyDict, tree |-> <<>>]

\* Two requests, each with the catalog the archive returned to it.
InitPair ==
    /\ bios = <<>>
    /\ Fresh
    /\ calls \in [1..2 -> {NewCall(cat) : cat \in CatalogsOf(PairRecords, MaxPairRecords)}]

\* The loader loop, in a frame.
LoadStep(f) ==
    IF f.pc # "load" THEN {}
    ELSE {[f EXCEPT !.enc_terms = LoadTerms(f.bios), !.pc = "buckets"]}

\* The bucket loops and the pruning, in a frame.
BucketsStep(f) ==
    IF f.pc # "buckets" THEN {}
    ELSE {[f EXCEPT !.slim_members = PruneEmpty(AddTerms(EmptyDict, f.enc_terms)),
                    !.pc = "parents"]}

\* slims, sizes, parents and the parent loop, in a frame.
ParentsStep(f) ==
    IF f.pc # "parents" THEN {}
    ELSE LET d == f.slim_members
             choices == [a \in KeySet(d) |-> ParentChoices(d, a)]
         IN  {[f EXCEPT !.slims = Keys(d),
                        !.sizes = [s \in KeySet(d) |-> Cardinality(Get(d, s))],
                        !.parents = [i \in 1..Len(d) |-> <<d[i][1], pr[d[i][1]]>>],
                        !.pc = "nodes"] : pr \in ChooseEach(KeySet(d), choices)}

\* for s in slims: ensure_node(s), in a frame.
NodesStep(f) ==
    IF f.pc # "nodes" THEN {}
    ELSE IF \E s \in Range(f.slims) : ~Has(f.slim_members, s)
    THEN {[f EXCEPT !.pc = "raised"]}
    ELSE LET choices == [s \in Range(f.slims) |->
                           SortedSet(Get(f.slim_members, s),
                                     FoldKey(Get(f.slim_members, s)))]
         IN  {[f EXCEPT !.nodes = [i \in 1..Len(f.slims) |->
                                     <<f.slims[i],
                                       [id |-> NodeId(f.slims[i]),
                                        label |-> f.slims[i],
                                        children |-> <<>>,
                                        members |-> mem[f.slims[i]]]>>],
                        !.pc = "children"] : mem \in ChooseEach(Range(f.slims), choices)}

\* The loop over parents.items(), in a frame.
ChildrenStep(f) ==
    IF f.pc # "children" THEN {}
    ELSE IF \E e \in Range(f.parents) : IsLinked(e[1], e[2]) /\ ~Has(f.nodes, e[2])
    THEN {[f EXCEPT !.pc = "raised"]}
    ELSE {[f EXCEPT !.nodes = LinkAll(f.nodes, f.parents), !.pc = "roots"]}

\* all_children, roots and the fallback, in a frame.
RootsStep(f) ==
    IF f.pc # "roots" THEN {}
    ELSE IF \E s \in Range(f.slims) : ~Has(f.nodes, s)
    THEN {[f EXCEPT !.pc = "raised"]}
    ELSE {[f EXCEPT !.roots = Roots(f.nodes, f.parents, f.slims, f.sizes),
                    !.pc = "aggregate"]}

\* The cache of the other call's agg, were agg one function of the module.
AggCacheOfModule(k) == calls[3 - k].cache

\* @lru_cache(maxsize=None) is applied inside the call: the agg of call k
\* has a cache of its own, empty when agg is defined.
AggCache(k) == EmptyDict

\* agg(s) with cache c0 does not return: s is not cached and a node is
\* missing or the recursion through children never ends.
RECURSIVE CachedFails(_, _, _, _)
CachedFails(ns, c0, s, fuel) ==
    /\ s \notin DOMAIN c0
    /\ \/ fuel = 0
       \/ ~Has(ns, s)
       \/ \E c \in Range(Get(ns, s).children) : CachedFails(ns, c0, c, fuel - 1)

\* seen in agg(s) with cache c0; a cached label returns what the cache holds.
RECURSIVE CachedSet(_, _, _)
CachedSet(ns, c0, s) ==
    IF s \in DOMAIN c0 THEN Range(c0[s])
    ELSE AggSeed(Get(ns, s))
            \cup UNION {CachedSet(ns, c0, c) : c \in Range(Get(ns, s).children)}

\* def agg, then for s in slims: nodes[s]["aggregate_members"] = agg(s), in
\* a frame whose agg starts with cache c0 (a function of the labels cached).
AggregateStep(f, c0) ==
    IF f.pc # "aggregate" THEN {}
    ELSE IF \E s \in Range(f.slims) : CachedFails(f.nodes, c0, s, Len(f.nodes))
    THEN {[f EXCEPT !.pc = "raised"]}
    ELSE LET seen == [s \in Range(f.slims) |-> CachedSet(f.nodes, c0, s)]
             choices == [s \in Range(f.slims) |->
                           IF s \in DOMAIN c0 THEN {c0[s]}
                           ELSE SortedSet(seen[s], FoldKey(seen[s]))]
         IN  {[f EXCEPT !.nodes = [i \in 1..Len(f.nodes) |->
                                     IF f.nodes[i][1] \in Range(f.slims)
                                     THEN <<f.nodes[i][1],
                                            f.nodes[i][2] @@
                                              ("aggregate_members" :> ag[f.nodes[i][1]])>>
                                     ELSE f.nodes[i]],
                        !.cache = [s \in DOMAIN c0 \cup Range(f.slims) |->
                                     IF s \in DOMAIN c0 THEN c0[s] ELSE ag[s]],
                        !.pc = "serialize"] : ag \in ChooseEach(Range(f.slims), choices)}

\* pack and tree, in a frame.
SerializeStep(f) ==
    IF f.pc # "serialize" THEN {}
    ELSE LET order == StableSort(f.roots, FoldKey(Range(f.roots)))
             members == AllAggregate(f.nodes, f.slims)
         IN  {[f EXCEPT !.tree = [id |-> RootId,
                                  label |-> RootLabel,
                                  children |-> [i \in 1..Len(order) |->
                                                  Pack(f.nodes, order[i])],
                                  members |-> <<>>,
                                  aggregate_members |-> all],
                        !.pc = "done"] : all \in SortedSet(members, FoldKey(members))}

\* Call k goes from frame calls[k] to frame g; nothing else changes.
Enter(k, g) ==
    /\ calls' = [calls EXCEPT ![k] = g]
    /\ UNCHANGED <<pc, bios, enc_terms, slim_members, slims, sizes, parents,
                   nodes, roots, tree, run, first_tree>>

CallLoad == \E k \in DOMAIN calls : \E g \in LoadStep(calls[k]) : Enter(k, g)

CallBuckets == \E k \in DOMAIN calls : \E g \in BucketsStep(calls[k]) : Enter(k, g)

CallParents == \E k \in DOMAIN calls : \E g \in ParentsStep(calls[k]) : Enter(k, g)

CallNodes == \E k \in DOMAIN calls : \E g \in NodesStep(calls[k]) : Enter(k, g)

CallChildren == \E k \in DOMAIN calls : \E g \in ChildrenStep(calls[k]) : Enter(k, g)

CallRoots == \E k \in DOMAIN calls : \E g \in RootsStep(calls[k]) : Enter(k, g)

CallAggregate ==
    \E k \in DOMAIN calls : \E g \in AggregateStep(calls[k], AggCache(k)) : Enter(k, g)

CallSerialize == \E k \in DOMAIN calls : \E g \in SerializeStep(calls[k]) : Enter(k, g)

\* The steps of the two calls in any order.
NextPair ==
    \/ CallLoad
    \/ CallBuckets
    \/ CallParents
    \/ CallNodes
    \/ CallChildren
    \/ CallRoots
    \/ CallAggregate
    \/ CallSerialize

SpecPair == InitPair /\ [][NextPair]_vars

(***************************************************************************)
(* What the claims speak of.                                               *)
(***************************************************************************)
\* members(s): the bucket of slim s.
MembersOf(s) == Get(slim_members, s)

\* A is a strict subset of B.
Inside(A, B) == A \subseteq B /\ A # B

\* The parent mapping is complete.
ParentsDone == pc \in {"nodes", "children", "roots", "aggregate", "serialize", "done"}

\* The children lists and the root list are complete.
RootsDone == pc \in {"aggregate", "serialize", "done"}

\* The concatenation of a list of lists.
RECURSIVE Flatten(_)
Flatten(ss) == IF ss = <<>> THEN <<>> ELSE Head(ss) \o Flatten(Tail(ss))

\* A list holds no value twice.
NoDup(seq) == \A i, j \in 1..Len(seq) : i # j => seq[i] # seq[j]

\* The k-th ancestor of s under the parent mapping, None when there is none.
RECURSIVE Ancestor(_, _, _)
Ancestor(ps, s, k) ==
    IF k = 0 THEN s
    ELSE IF ParentOf(ps, s) = None THEN None
         ELSE Ancestor(ps, ParentOf(ps, s), k - 1)

\* The labels met going down the children edges from s, at most fuel deep.
RECURSIVE Walk(_, _, _)
Walk(ns, s, fuel) ==
    IF fuel = 0 THEN <<>>
    ELSE <<s>> \o Flatten([i \in 1..Len(Get(ns, s).children) |->
                             Walk(ns, Get(ns, s).children[i], fuel - 1)])

\* C1: whenever the parent mapping gives slim a the parent p, members(a) is
\* a strict subset of members(p) and no other slim q has members(a) strictly
\* inside members(q) and members(q) strictly inside members(p).
MinimalParentLaw ==
    ParentsDone =>
        \A e \in Range(parents) :
            e[2] # None =>
                /\ Inside(MembersOf(e[1]), MembersOf(e[2]))
                /\ ~\E q \in KeySet(slim_members) :
                       /\ Inside(MembersOf(e[1]), MembersOf(q))
                       /\ Inside(MembersOf(q), MembersOf(e[2]))

\* A slim got its parent although a larger strict superset was at hand.
MinimalParentWitness ==
    /\ ParentsDone
    /\ \E e \in Range(parents) :
          /\ e[2] # None
          /\ \E q \in KeySet(slim_members) : Inside(MembersOf(e[2]), MembersOf(q))

\* C2: the parent relation is acyclic: no slim is its own ancestor, and
\* going down the children edges from a root meets no node twice.
ParentsAcyclic ==
    /\ ParentsDone =>
          \A s \in KeySet(parents) : \A k \in 1..Len(parents) :
              Ancestor(parents, s, k) # s
    /\ RootsDone =>
          \A r \in Range(roots) : NoDup(Walk(nodes, r, Len(nodes) + 1))

\* A build ended with a slim that has a parent and a grandparent.
ParentsAcyclicWitness ==
    /\ RootsDone
    /\ \E s \in KeySet(parents) : Ancestor(parents, s, 2) # None

\* The nodes of a serialized tree, the tree itself first.
RECURSIVE Subtrees(_)
Subtrees(t) ==
    <<t>> \o Flatten([i \in 1..Len(t.children) |-> Subtrees(t.children[i])])

\* The slim nodes of a serialized tree: all nodes but the synthetic root.
SlimNodes(t) == Tail(Subtrees(t))

\* The labels of a list of nodes.
LabelsOf(ns) == [i \in 1..Len(ns) |-> ns[i].label]

\* How often x occurs in a list.
Count(seq, x) == Cardinality({i \in 1..Len(seq) : seq[i] = x})

\* C3: every slim that survives bucketing appears exactly once in the
\* serialized tree: every root is a direct child of the synthetic root and
\* every other slim is reachable from exactly one root.
EverySlimOnce ==
    pc = "done" =>
        /\ \A s \in Range(slims) : Count(LabelsOf(SlimNodes(tree)), s) = 1
        /\ \A r \in Range(roots) : Count(LabelsOf(tree.children), r) = 1
        /\ \A s \in Range(slims) \ Range(roots) :
              Cardinality({i \in 1..Len(tree.children) :
                             s \in Range(LabelsOf(Subtrees(tree.children[i])))}) = 1

\* C4: two builds on the same catalog return the same tree.
Deterministic == (pc = "done" /\ run = 2) => tree = first_tree

\* C5: in the output every node's aggregate_members holds its members and
\* the aggregate_members of each of its children; the same in the node
\* table, whose children are labels.
AggregateSupersetLaw ==
    /\ pc = "done" =>
          \A n \in Range(Subtrees(tree)) :
              /\ Range(n.members) \subseteq Range(n.aggregate_members)
              /\ \A i \in 1..Len(n.children) :
                    Range(n.children[i].aggregate_members) \subseteq Range(n.aggregate_members)
    /\ pc \in {"serialize", "done"} =>
          \A e \in Range(nodes) :
              /\ Range(e[2].members) \subseteq Range(e[2].aggregate_members)
              /\ \A c \in Range(e[2].children) :
                    Range(Get(nodes, c).aggregate_members) \subseteq Range(e[2].aggregate_members)

\* A slim node of the output has a child.
AggregateSupersetWitness ==
    /\ pc = "done"
    /\ \E n \in Range(SlimNodes(tree)) : n.children # <<>>

\* The minimal strict supersets of slim a among the slims.
MinimalSupersets(a) ==
    {b \in KeySet(slim_members) :
        /\ Inside(MembersOf(a), MembersOf(b))
        /\ ~\E c \in KeySet(slim_members) :
               Inside(MembersOf(a), MembersOf(c)) /\ Inside(MembersOf(c), MembersOf(b))}

Trimmed(b) == Lower(Strip(IF "classification" \in DOMAIN b THEN b["classification"] ELSE EmptyStr))

\* "primary cell", "in vitro differentiated cells", "cell line", "cell"
AllowedByClaim ==
    { <<112, 114, 105, 109, 97, 114, 121, 32, 99, 101, 108, 108>>,
      <<105, 110, 32, 118, 105, 116, 114, 111, 32, 100, 105, 102, 102, 101, 114,
        101, 110, 116, 105, 97, 116, 101, 100, 32, 99, 101, 108, 108, 115>>,
      <<99, 101, 108, 108, 32, 108, 105, 110, 101>>,
      <<99, 101, 108, 108>> }

\* The classification of a record is non-empty and not allowed.
ClassExcluded(b) == Trimmed(b) # EmptyStr /\ Trimmed(b) \notin AllowedByClaim

\* The name of a record, empty when it has none.
NameOf(b) == IF "term_name" \in DOMAIN b THEN b["term_name"] ELSE EmptyStr

\* The names of the records of the catalog that satisfy P, in order.
NamesWhere(P(_)) ==
    LET kept == SelectSeq(bios, P) IN [i \in 1..Len(kept) |-> NameOf(kept[i])]

\* The names of the loaded terms, in order.
LoadedNames == [i \in 1..Len(enc_terms) |-> enc_terms[i].term_name]

\* The names that occur in a bucket, in a node or in the output.
NamesInUse ==
    UNION {e[2] : e \in Range(slim_members)}
        \cup UNION {Range(e[2].members) : e \in Range(nodes)}
        \cup (IF pc \in {"serialize", "done"}
              THEN UNION {Range(e[2].aggregate_members) : e \in Range(nodes)} ELSE {})
        \cup (IF pc = "done"
              THEN UNION {Range(n.members) \cup Range(n.aggregate_members) :
                            n \in Range(Subtrees(tree))}
              ELSE {})

\* C7 as stated: the records loaded are exactly those whose classification
\* does not exclude them, and the name of an excluded record that no
\* included record carries is nowhere in the buckets, nodes and output.
ClassificationAloneDecides ==
    pc # "load" =>
        /\ LoadedNames = NamesWhere(LAMBDA b : ~ClassExcluded(b))
        /\ \A i \in 1..Len(bios) :
              (/\ ClassExcluded(bios[i])
               /\ ~\E j \in 1..Len(bios) :
                      ~ClassExcluded(bios[j]) /\ NameOf(bios[j]) = NameOf(bios[i]))
                  => NameOf(bios[i]) \notin NamesInUse

\* C7 amended: of the records that have a name, those loaded are exactly
\* those whose classification does not exclude them, a missing or empty
\* classification excluding none; the name of an excluded record that no
\* included record carries is nowhere in the buckets, nodes and output.
ClassificationFilter ==
    pc # "load" =>
        /\ SelectSeq(LoadedNames, LAMBDA n : n # EmptyStr)
              = NamesWhere(LAMBDA b : NameOf(b) # EmptyStr /\ ~ClassExcluded(b))
        /\ \A i \in 1..Len(bios) :
              (/\ NameOf(bios[i]) # EmptyStr
               /\ ClassExcluded(bios[i])
               /\ ~\E j \in 1..Len(bios) :
                      /\ ~ClassExcluded(bios[j])
                      /\ NameOf(bios[j]) = NameOf(bios[i]))
                  => NameOf(bios[i]) \notin NamesInUse

\* A build ended on a catalog with a named record that its classification
\* excludes and a record of another name that a padded, capitalised
\* classification admits.
ClassificationFilterWitness ==
    /\ pc = "done"
    /\ \E i, j \in 1..Len(bios) :
          /\ NameOf(bios[i]) # EmptyStr /\ ClassExcluded(bios[i])
          /\ NameOf(bios[j]) # EmptyStr /\ NameOf(bios[j]) # NameOf(bios[i])
          /\ "classification" \in DOMAIN bios[j]
          /\ bios[j]["classification"] \notin AllowedByClaim
          /\ ~ClassExcluded(bios[j])
          /\ NameOf(bios[j]) \in NamesInUse

UniqueIds ==
    pc = "done" =>
        /\ NoDup([i \in 1..Len(Subtrees(tree)) |-> Subtrees(tree)[i].id])
        /\ \A n \in Range(SlimNodes(tree)) : n.id = <<83, 76, 73, 77, 58, 58>> \o n.label
        /\ tree.id = <<83, 76, 73, 77, 58, 58, 82, 79, 79, 84>>

\* A list of names is in non-decreasing order of the case-folded name.
FoldSorted(seq) ==
    \A i, j \in 1..Len(seq) : i < j => ~StrLess(CaseFold(seq[j]), CaseFold(seq[i]))

\* C10: in every node of the output, the synthetic root included, members
\* and aggregate_members hold no entry twice and are in non-decreasing
\* order of the case-folded name.
MembersSorted ==
    pc = "done" =>
        \A n \in Range(Subtrees(tree)) :
            /\ NoDup(n.members) /\ FoldSorted(n.members)
            /\ NoDup(n.aggregate_members) /\ FoldSorted(n.aggregate_members)

\* A node of the output lists a name before one that precedes it by code
\* point.
MembersSortedWitness ==
    /\ pc = "done"
    /\ \E n \in Range(SlimNodes(tree)) : \E i, j \in 1..Len(n.members) :
          i < j /\ StrLess(n.members[j], n.members[i])

\* C11: at every level of the output, the children of the synthetic root
\* included, the children are in non-decreasing order of the case-folded
\* label, whatever the order in which assembly appended them.
ChildrenSorted ==
    pc = "done" =>
        \A n \in Range(Subtrees(tree)) : FoldSorted(LabelsOf(n.children))

\* Assembly appended the children of a node of the output in an order that
\* is not the order of their case-folded labels.
ChildrenSortedWitness ==
    /\ pc = "done"
    /\ \E n \in Range(SlimNodes(tree)) :
          /\ Len(n.children) > 1
          /\ ~FoldSorted(Get(nodes, n.label).children)

\* The names in the aggregate_members of a list of output nodes.
AggregateOf(ns) == UNION {Range(ns[i].aggregate_members) : i \in 1..Len(ns)}

\* C12: the aggregate_members of the synthetic root are, as a set, the
\* union of the aggregate_members of all slim nodes (of the node table and
\* of the output) and the union of the aggregate_members of the direct
\* children of the root in the output.
RootAggregate ==
    pc = "done" =>
        /\ Range(tree.aggregate_members)
              = UNION {Range(e[2].aggregate_members) : e \in Range(nodes)}
        /\ Range(tree.aggregate_members) = AggregateOf(SlimNodes(tree))
        /\ Range(tree.aggregate_members) = AggregateOf(tree.children)

\* The output has two roots, one of them with a child whose aggregate is
\* smaller than its own.
RootAggregateWitness ==
    /\ pc = "done"
    /\ Len(tree.children) > 1
    /\ \E n \in Range(tree.children) : \E c \in Range(n.children) :
          Range(c.aggregate_members) # Range(n.aggregate_members)

\* The frames one step of a call that runs alone reaches from frame f: its
\* agg starts with an empty cache.
AloneSteps(f) ==
    LoadStep(f) \cup BucketsStep(f) \cup ParentsStep(f) \cup NodesStep(f)
        \cup ChildrenStep(f) \cup RootsStep(f) \cup AggregateStep(f, EmptyDict)
        \cup SerializeStep(f)

\* The frames of F and those that at most n steps alone reach from them.
RECURSIVE AloneFrom(_, _)
AloneFrom(F, n) ==
    IF n = 0 \/ F = {} THEN F
    ELSE F \cup AloneFrom(UNION {AloneSteps(f) : f \in F}, n - 1)

\* The frames a call can be in when it runs alone on catalog cat, from the
\* fetch to the return eight phases later.
AloneFrames(cat) == AloneFrom({NewCall(cat)}, 8)

\* C13: two calls whose steps interleave in any order share no state: at
\* every point the buckets, parent map, node table, cache and tree of each
\* are what a call alone on the same catalog can have, so each returns a
\* tree it can return when run alone.
CallsIndependent ==
    \A k \in DOMAIN calls : calls[k] \in AloneFrames(calls[k].bios)

\* Both calls have returned; their catalogs gave the same label different
\* members.
CallsIndependentWitness ==
    /\ DOMAIN calls = {1, 2}
    /\ calls[1].pc = "done" /\ calls[2].pc = "done"
    /\ \E s \in KeySet(calls[1].slim_members) \cap KeySet(calls[2].slim_members) :
          /\ Get(calls[1].slim_members, s) # Get(calls[2].slim_members, s)
          /\ Get(calls[1].nodes, s).children # <<>>

\* The members of the nodes whose labels a list holds.
MembersUnder(ns, labels) == UNION {Range(Get(ns, l).members) : l \in Range(labels)}

\* C14: for every slim s, aggregate_members(s) is, as a set, members(s)
\* united with the members of every descendant of s in the assembled
\* forest; the same holds of every slim node of the output and the nodes
\* below it.
AggregateClosure ==
    /\ pc \in {"serialize", "done"} =>
          \A s \in Range(slims) :
              Range(Get(nodes, s).aggregate_members)
                 = MembersUnder(nodes, Walk(nodes, s, Len(nodes) + 1))
    /\ pc = "done" =>
          \A n \in Range(SlimNodes(tree)) :
              Range(n.aggregate_members)
                 = UNION {Range(d.members) : d \in Range(Subtrees(n))}

\* A slim node of the output has a child that has a child.
AggregateClosureWitness ==
    /\ pc = "done"
    /\ \E n \in Range(SlimNodes(tree)) : \E c \in Range(n.children) :
          /\ c.children # <<>>
          /\ Range(n.aggregate_members) # {}

\* Distinct slims with the same members.
Twins(a, b) == a # b /\ MembersOf(a) = MembersOf(b)

\* C15: two distinct slims with the same members are never parent and
\* child of each other, in the parent mapping or in the children lists;
\* the parent of either, if it has one, is a third slim whose members are a
\* strict superset; and the parent loop gives both the same candidates.
TwinsApart ==
    /\ ParentsDone =>
          \A a, b \in KeySet(slim_members) :
              Twins(a, b) =>
                  /\ Get(parents, a) # b
                  /\ Get(parents, a) # None =>
                        /\ Get(parents, a) \in KeySet(slim_members) \ {a, b}
                        /\ Inside(MembersOf(a), MembersOf(Get(parents, a)))
                  /\ Range(Candidates(slim_members, a))
                        = Range(Candidates(slim_members, b))
    /\ RootsDone =>
          \A a, b \in KeySet(slim_members) :
              Twins(a, b) => a \notin Range(Get(nodes, b).children)

\* Two distinct slims with the same members have a parent.
TwinsApartWitness ==
    /\ RootsDone
    /\ \E a, b \in KeySet(slim_members) :
          Twins(a, b) /\ Get(parents, a) # None /\ Get(parents, b) # None

\* The slims whose members no other slim's members strictly contain.
Maximal ==
    {a \in KeySet(slim_members) :
        ~\E b \in KeySet(slim_members) \ {a} : Inside(MembersOf(a), MembersOf(b))}

\* C16: the root list holds, once each, exactly the slims that have no
\* strict superset among the other slims; a slim is a root iff the parent
\* loop finds it no candidate, iff its parent is None and no children list
\* holds it.
RootsAreMaximal ==
    RootsDone =>
        /\ Range(roots) = Maximal
        /\ NoDup(roots)
        /\ \A a \in KeySet(slim_members) :
              /\ a \in Range(roots) <=> Candidates(slim_members, a) = <<>>
              /\ a \in Range(roots) <=>
                    (Get(parents, a) = None /\ a \notin AllChildren(nodes, slims))

\* The build found two roots and a slim that is none.
RootsAreMaximalWitness ==
    /\ RootsDone
    /\ Len(roots) > 1
    /\ KeySet(slim_members) \ Range(roots) # {}

\* C17: the children lists are the inverse of the parent mapping: a slim c
\* whose parent is p, whatever label p is, occurs exactly once in the
\* children list of p and in no other children list, and a slim whose
\* parent is None occurs in no children list.
ChildrenInverse ==
    pc \in {"roots", "aggregate", "serialize", "done"} =>
        \A c \in KeySet(parents) :
            IF Get(parents, c) = None
            THEN \A e \in Range(nodes) : Count(e[2].children, c) = 0
            ELSE \A e \in Range(nodes) :
                    Count(e[2].children, c) = (IF e[1] = Get(parents, c) THEN 1 ELSE 0)

\* C18: the fallback of the root computation is never taken: whenever the
\* catalog gave a slim, the slims without parent and outside every
\* children list are not none, and the root list is that list.
FallbackUnreachable ==
    /\ (pc = "roots" /\ slims # <<>>) => NaturalRoots(nodes, parents, slims) # <<>>
    /\ RootsDone => roots = NaturalRoots(nodes, parents, slims)

\* The root computation has run on three slims and found one root.
FallbackUnreachableWitness ==
    /\ RootsDone
    /\ Len(slims) = 3
    /\ Len(roots) = 1

\* The bucket index is complete.
BucketsDone == pc \notin {"load", "buckets"}

\* The labels that the slim lists of the loaded terms hold.
LabelsLoaded == UNION {Range(t.cell_slims) : t \in Range(enc_terms)}

\* C19: after construction the bucket index has one bucket for each label
\* that the slim list of a loaded term holds; the bucket of label l is the
\* set of names of the loaded terms whose slim list holds l; no bucket is
\* empty, and the pruning of empty buckets removed none.
BucketIndex ==
    BucketsDone =>
        /\ NoDup(Keys(slim_members))
        /\ KeySet(slim_members) = LabelsLoaded
        /\ \A l \in KeySet(slim_members) :
              /\ MembersOf(l) = {t.term_name : t \in {u \in Range(enc_terms) :
                                                        l \in Range(u.cell_slims)}}
              /\ MembersOf(l) # {}
        /\ slim_members = AddTerms(EmptyDict, enc_terms)

\* The index has a bucket of two names and a bucket of one, and a loaded
\* term is in no bucket.
BucketIndexWitness ==
    /\ BucketsDone
    /\ \E l, m \in KeySet(slim_members) :
          Cardinality(MembersOf(l)) = 2 /\ Cardinality(MembersOf(m)) = 1
    /\ \E t \in Range(enc_terms) : t.cell_slims = <<>>

\* The node table is complete.
NodesDone == pc \in {"children", "roots", "aggregate", "serialize", "done"}

\* The labels stored as parents.
ParentLabels == {e[2] : e \in {x \in Range(parents) : x[2] # None}}

SlimsOf(b) == IF "cell_slims" \in DOMAIN b THEN Range(b["cell_slims"]) ELSE {}

\* The labels that only records without a name carry.
NamelessLabels ==
    UNION {SlimsOf(bios[i]) : i \in {j \in 1..Len(bios) : NameOf(bios[j]) = EmptyStr}}
        \ UNION {SlimsOf(bios[i]) : i \in {j \in 1..Len(bios) : NameOf(bios[j]) # EmptyStr}}

\* C21: a record whose name is absent or empty is not loaded, whatever its
\* classification and slims: no loaded term is nameless and there are no
\* more loaded terms than named records; no bucket, node or output list
\* holds the empty name; and a label that only nameless records carry has
\* no bucket, no node in the table and no node in the output.
NamelessExcluded ==
    pc # "load" =>
        /\ \A t \in Range(enc_terms) : t.term_name # EmptyStr /\ t.term_name # None
        /\ Len(enc_terms) <= Len(SelectSeq(bios, LAMBDA b : NameOf(b) # EmptyStr))
        /\ EmptyStr \notin NamesInUse
        /\ NamelessLabels \cap KeySet(slim_members) = {}
        /\ NamelessLabels \cap KeySet(nodes) = {}
        /\ pc = "done" => NamelessLabels \cap Range(LabelsOf(SlimNodes(tree))) = {}

\* A build ended on a catalog where a nameless record that its
\* classification admits is the only carrier of a label, and a named
\* record gave a slim node.
NamelessExcludedWitness ==
    /\ pc = "done"
    /\ tree.children # <<>>
    /\ \E i \in 1..Len(bios) :
          /\ NameOf(bios[i]) = EmptyStr
          /\ ~ClassExcluded(bios[i])
          /\ SlimsOf(bios[i]) \cap NamelessLabels # {}

\* C22: in the node table and in every slim node of the output,
\* aggregate_members is members as a set: the members of every child, and
\* so of every descendant, are a strict subset of the members of the node,
\* and aggregation adds no name to a slim node.
AggregateIsMembers ==
    /\ pc \in {"roots", "aggregate", "serialize", "done"} =>
          \A e \in Range(nodes) : \A c \in Range(e[2].children) :
              Inside(Range(Get(nodes, c).members), Range(e[2].members))
    /\ pc \in {"serialize", "done"} =>
          \A e \in Range(nodes) : Range(e[2].aggregate_members) = Range(e[2].members)
    /\ pc = "done" =>
          \A n \in Range(SlimNodes(tree)) :
              /\ Range(n.aggregate_members) = Range(n.members)
              /\ \A d \in Range(Tail(Subtrees(n))) :
                    Inside(Range(d.members), Range(n.members))

\* A slim node of the output has three members and two children.
AggregateIsMembersWitness ==
    /\ pc = "done"
    /\ \E n \in Range(SlimNodes(tree)) : Len(n.members) = 3 /\ Len(n.children) = 2

\* The names in the members and aggregate_members of the nodes of the
\* output, the synthetic root included.
OutputNames ==
    UNION {Range(n.members) \cup Range(n.aggregate_members) : n \in Range(Subtrees(tree))}

\* The names of the loaded terms that have a slim.
NamesWithSlim == {t.term_name : t \in {u \in Range(enc_terms) : u.cell_slims # <<>>}}

\* C23 as stated: the name of a loaded term whose slim list is empty is
\* nowhere in the output, and the aggregate of the synthetic root is the
\* set of the names of the loaded terms that have a slim.
SlimlessTermAbsent ==
    pc = "done" =>
        /\ \A t \in Range(enc_terms) :
              t.cell_slims = <<>> => t.term_name \notin OutputNames
        /\ Range(tree.aggregate_members) = NamesWithSlim

\* C23 amended: the name of a loaded term whose slim list is empty is
\* nowhere in the output unless a loaded term of the same name has a slim;
\* the names of the output, and the aggregate of the synthetic root, are
\* the names of the loaded terms that have a slim.
SlimlessNameAbsent ==
    pc = "done" =>
        /\ \A t \in Range(enc_terms) :
              (t.cell_slims = <<>> /\ t.term_name \notin NamesWithSlim)
                  => t.term_name \notin OutputNames
        /\ OutputNames = NamesWithSlim
        /\ Range(tree.aggregate_members) = NamesWithSlim

\* A build ended with a loaded term without slims whose name no term with
\* a slim carries, another such term whose name one does carry, and a
\* non-empty root aggregate.
SlimlessNameAbsentWitness ==
    /\ pc = "done"
    /\ tree.aggregate_members # <<>>
    /\ \E t, u \in Range(enc_terms) :
          /\ t.cell_slims = <<>> /\ t.term_name \notin NamesWithSlim
          /\ u.cell_slims = <<>> /\ u.term_name \in NamesWithSlim

\* The labels and the names of a catalog.
LabelsIn(cat) == UNION {SlimsOf(cat[i]) : i \in 1..Len(cat)}

NamesIn(cat) == {NameOf(cat[i]) : i \in 1..Len(cat)}

\* No two of a set of strings are equal after case folding.
FoldDistinct(S) == \A x, y \in S : x # y => CaseFold(x) # CaseFold(y)

\* C24: when no two slim labels and no two term names of the catalog are
\* equal after case folding, the build of the catalog with its records in
\* another order, and the slims of each record in another order, returns
\* the tree the first build returned.
OrderIndependent ==
    (pc = "done" /\ run = 2 /\ FoldDistinct(LabelsIn(bios)) /\ FoldDistinct(NamesIn(bios)))
        => tree = first_tree

\* The second build ended on a catalog without such labels and names in
\* which a record lists "c" before another label, which no first catalog
\* does; its tree has a node with two children.
OrderIndependentWitness ==
    /\ pc = "done" /\ run = 2
    /\ FoldDistinct(LabelsIn(bios)) /\ FoldDistinct(NamesIn(bios))
    /\ \E i \in 1..Len(bios) :
          Len(bios[i]["cell_slims"]) > 1 /\ bios[i]["cell_slims"][1] = <<99>>
    /\ \E n \in Range(SlimNodes(tree)) : Len(n.children) = 2

\* The largest of a set of naturals, 0 for the empty set.
Largest(S) == IF S = {} THEN 0 ELSE CHOOSE x \in S : \A y \in S : y <= x

\* The number of levels below slim s in the node table, counted as far as
\* fuel allows: fuel when the children edges never end.
RECURSIVE LevelsBelow(_, _, _)
LevelsBelow(ns, s, fuel) ==
    IF fuel = 0 THEN 0
    ELSE Largest({1 + LevelsBelow(ns, c, fuel - 1) : c \in Range(Get(ns, s).children)})

\* The number of levels below a node of the output.
RECURSIVE Height(_)
Height(n) == Largest({1 + Height(n.children[i]) : i \in 1..Len(n.children)})

\* C25: the size of the member set strictly decreases from parent to child,
\* in the parent mapping, in the children lists and in the output; so the
\* levels below a slim, a root above all, are fewer than its members, and
\* the recursions of agg and pack, which go down these levels, end: the
\* build does not raise.
SizeDecreases ==
    /\ pc # "raised"
    /\ ParentsDone =>
          \A e \in Range(parents) : e[2] # None => sizes[e[1]] < sizes[e[2]]
    /\ RootsDone =>
          /\ \A e \in Range(nodes) : \A c \in Range(e[2].children) :
                Len(Get(nodes, c).members) < Len(e[2].members)
          /\ \A s \in Range(slims) : LevelsBelow(nodes, s, Len(nodes) + 1) < sizes[s]
    /\ pc = "done" =>
          \A n \in Range(SlimNodes(tree)) :
              /\ Height(n) < Len(n.members)
              /\ \A i \in 1..Len(n.children) :
                    Len(n.children[i].members) < Len(n.members)

\* The output has a root of three members with a node two levels below it.
SizeDecreasesWitness ==
    /\ pc = "done"
    /\ \E r \in Range(tree.children) : Len(r.members) = 3 /\ Height(r) = 2

====
